---------------------------- MODULE Spec2Model ----------------------------
(***************************************************************************)
(* Model of the "catching puppy" shell game: the round state machine of    *)
(* src/src/App.jsx (App component), its timers, the permutation engine     *)
(* and the leaderboard merge/sanitize functions.                           *)
(*                                                                         *)
(* Strings are sequences of one-character strings, so that trimming,       *)
(* whitespace collapsing and lower-casing are computed, not assumed.       *)
(* JavaScript null is NoDog (dog ids), "none" (outcome), NoScore (score)   *)
(* and NoTimer (timer handles).                                            *)
(***************************************************************************)
EXTENDS Integers, Sequences, FiniteSets, TLC

(***************************************************************************)
(* Program constants                                                       *)
(***************************************************************************)
MAX_STAGE == 100

LEADERBOARD_CAP == 100

PROGRESS_PERIOD_MS == 40

NoDog == 0

NoScore == -1

NoTimer == 0

(***************************************************************************)
(* Bounds of the model                                                     *)
(***************************************************************************)
\* startRound calls explored from the initial state
MaxRounds == 3

\* wall-clock reading (Date.now()) in the initial state
BootTime == 10

(***************************************************************************)
(* Numbers and strings                                                     *)
(***************************************************************************)
Min(a, b) == IF a <= b THEN a ELSE b

Max(a, b) == IF a >= b THEN a ELSE b

\* Math.max(1, Math.min(MAX_STAGE, Math.floor(value))) on finite integers
clampStage(value) == Max(1, Min(MAX_STAGE, value))

\* a score clamp with the stage's lower bound
clampScoreFromOne(value) == Max(1, Min(MAX_STAGE, value))

\* Math.max(0, Math.min(MAX_STAGE, Math.floor(value))) on finite integers
clampScore(value) == Max(0, Min(MAX_STAGE, value))

Whitespace == {" ", "\t"}

UpperChars == <<"A", "B", "F", "O", "X">>

LowerChars == <<"a", "b", "f", "o", "x">>

\* String.prototype.toLowerCase, one character
lowerChar(c) ==
    IF \E i \in 1..Len(UpperChars) : UpperChars[i] = c
    THEN LowerChars[CHOOSE i \in 1..Len(UpperChars) : UpperChars[i] = c]
    ELSE c

toLowerCase(s) == [i \in 1..Len(s) |-> lowerChar(s[i])]

RECURSIVE trimStart(_)
trimStart(s) ==
    IF s # <<>> /\ Head(s) \in Whitespace THEN trimStart(Tail(s)) ELSE s

RECURSIVE trimEnd(_)
trimEnd(s) ==
    IF s # <<>> /\ s[Len(s)] \in Whitespace
    THEN trimEnd(SubSeq(s, 1, Len(s) - 1))
    ELSE s

trim(s) == trimEnd(trimStart(s))

\* replace(/\s+/g, ' '): every maximal run of whitespace becomes one space
RECURSIVE collapseWhitespace(_)
collapseWhitespace(s) ==
    IF s = <<>> THEN <<>>
    ELSE IF Head(s) \in Whitespace
         THEN <<" ">> \o collapseWhitespace(trimStart(s))
         ELSE <<Head(s)>> \o collapseWhitespace(Tail(s))

normalizeNickname(value) == collapseWhitespace(trim(value))

\* a validation that forgets the upper bound
isValidNicknameNoUpperBound(value) ==
    LET length == Len(normalizeNickname(value))
    IN  length >= 2

isValidNickname(value) ==
    LET length == Len(normalizeNickname(value))
    IN  length >= 2 /\ length <= 12

(***************************************************************************)
(* Leaderboard store.  A raw item is what JSON.parse may hand over:        *)
(* [isObject, nickname, score, scoreFinite, playedAt, playedAtFinite];     *)
(* an entry is [nickname, score, playedAt].                                *)
(***************************************************************************)
\* a parsed JSON value: [isArray, items], an array of raw items or something else
JsonArray(items) == [isArray |-> TRUE, items |-> items]

\* a JSON value that is not an array (an object, a number, a string, null)
NotAnArray == [isArray |-> FALSE, items |-> <<>>]

RawOf(entry) ==
    [isObject |-> TRUE, nickname |-> entry.nickname,
     score |-> entry.score, scoreFinite |-> TRUE,
     playedAt |-> entry.playedAt, playedAtFinite |-> TRUE]

RawOfAll(entries) == JsonArray([i \in 1..Len(entries) |-> RawOf(entries[i])])

\* a comparator that ranks the lowest score first
compareEntriesAscending(a, b) ==
    IF a.score - b.score # 0 THEN a.score - b.score ELSE a.playedAt - b.playedAt

\* the comparator of line 51: negative when a sorts before b
compareEntries(a, b) ==
    IF b.score - a.score # 0 THEN b.score - a.score ELSE a.playedAt - b.playedAt

\* Array.prototype.sort is stable: an entry comes after the entries that sort
\* strictly before it and after the earlier ones that sort equal to it
sortEntriesReversingTies(entries) ==
    LET n == Len(entries)
        rank == [i \in 1..n |->
                    Cardinality({j \in 1..n :
                        \/ compareEntries(entries[j], entries[i]) < 0
                        \/ compareEntries(entries[j], entries[i]) = 0 /\ j > i})]
    IN  [p \in 1..n |-> entries[CHOOSE i \in 1..n : rank[i] = p - 1]]

sortEntries(entries) ==
    LET n == Len(entries)
        rank == [i \in 1..n |->
                    Cardinality({j \in 1..n :
                        \/ compareEntries(entries[j], entries[i]) < 0
                        \/ compareEntries(entries[j], entries[i]) = 0 /\ j < i})]
    IN  [p \in 1..n |-> entries[CHOOSE i \in 1..n : rank[i] = p - 1]]

\* the .map callback of lines 31-47; index is 0-based, <<>> stands for null
sanitizeItem(item, index, now) ==
    IF ~item.isObject THEN <<>>
    ELSE LET nickname == normalizeNickname(item.nickname)
         IN  IF nickname = <<>> THEN <<>>
             ELSE <<[nickname |-> nickname,
                     score |-> IF item.scoreFinite THEN clampScore(item.score) ELSE 0,
                     playedAt |-> IF item.playedAtFinite THEN item.playedAt
                                  ELSE now - index * 1000]>>

\* .map(...).filter(Boolean): the entries that are not null, in the array's order
mapFilter(data, now) ==
    LET mapped == [i \in 1..Len(data) |-> sanitizeItem(data[i], i - 1, now)]
        kept == {i \in 1..Len(data) : Len(mapped[i]) > 0}
    IN  [k \in 1..Cardinality(kept) |->
            mapped[CHOOSE i \in kept : Cardinality({j \in kept : j < i}) = k - 1][1]]

sanitizeLeaderboard(data, now) ==
    IF ~data.isArray THEN <<>>
    ELSE LET entries == mapFilter(data.items, now)
             sorted == sortEntries(entries)
         IN  SubSeq(sorted, 1, Min(Len(sorted), LEADERBOARD_CAP))

\* Array.prototype.findIndex, 1-based here, 0 when nothing matches
findIndexByLower(next, normalizedLower) ==
    LET hits == {i \in 1..Len(next) : toLowerCase(next[i].nickname) = normalizedLower}
    IN  IF hits = {} THEN 0 ELSE CHOOSE i \in hits : \A j \in hits : i <= j

\* replaces the stored entry on a tie as well (>= for >)
buildUpdatedLeaderboardOnTie(current, nickname, score, now) ==
    LET normalizedNickname == normalizeNickname(nickname)
        normalizedLower == toLowerCase(normalizedNickname)
        existingIndex == findIndexByLower(current, normalizedLower)
        next == IF existingIndex >= 1
                THEN IF score >= current[existingIndex].score
                     THEN [current EXCEPT ![existingIndex] =
                              [nickname |-> current[existingIndex].nickname,
                               score |-> score, playedAt |-> now]]
                     ELSE current
                ELSE Append(current, [nickname |-> normalizedNickname,
                                      score |-> score, playedAt |-> now])
    IN  sanitizeLeaderboard(RawOfAll(next), now)

\* stores the latest score, whatever the stored one is
buildUpdatedLeaderboardLatest(current, nickname, score, now) ==
    LET normalizedNickname == normalizeNickname(nickname)
        normalizedLower == toLowerCase(normalizedNickname)
        existingIndex == findIndexByLower(current, normalizedLower)
        next == IF existingIndex >= 1
                THEN [current EXCEPT ![existingIndex] =
                         [nickname |-> current[existingIndex].nickname,
                          score |-> score, playedAt |-> now]]
                ELSE Append(current, [nickname |-> normalizedNickname,
                                      score |-> score, playedAt |-> now])
    IN  sanitizeLeaderboard(RawOfAll(next), now)

buildUpdatedLeaderboard(current, nickname, score, now) ==
    LET normalizedNickname == normalizeNickname(nickname)
        normalizedLower == toLowerCase(normalizedNickname)
        existingIndex == findIndexByLower(current, normalizedLower)
        next == IF existingIndex >= 1
                THEN IF score > current[existingIndex].score
                     THEN [current EXCEPT ![existingIndex] =
                              [nickname |-> current[existingIndex].nickname,
                               score |-> score, playedAt |-> now]]
                     ELSE current
                ELSE Append(current, [nickname |-> normalizedNickname,
                                      score |-> score, playedAt |-> now])
    IN  sanitizeLeaderboard(RawOfAll(next), now)

(***************************************************************************)
(* Permutation engine                                                      *)
(***************************************************************************)
getDogCount(stage) == IF stage >= 5 THEN 5 ELSE 3

\* slots numbered from 1 instead of 0
createDogsOneBased(count) == [idx \in 1..count |-> [id |-> idx, slot |-> idx]]

createDogs(count) == [idx \in 1..count |-> [id |-> idx, slot |-> idx - 1]]

\* the swap without the saved firstSlot: the second dog gets the slot the first
\* one holds after it was overwritten
shuffleOnceLostSlot(dogs, first, second) ==
    IF Len(dogs) < 2 THEN dogs
    ELSE LET step1 == [dogs EXCEPT ![first + 1].slot = dogs[second + 1].slot]
         IN  [step1 EXCEPT ![second + 1].slot = step1[first + 1].slot]

\* first, second: the two 0-based random indices that survive the resampling loop
shuffleOnce(dogs, first, second) ==
    IF Len(dogs) < 2 THEN dogs
    ELSE LET firstSlot == dogs[first + 1].slot
             step1 == [dogs EXCEPT ![first + 1].slot = dogs[second + 1].slot]
         IN  [step1 EXCEPT ![second + 1].slot = firstSlot]

\* a duration without its ceiling
getShuffleDurationUncapped(stage) == 3000 + stage * 650

getShuffleDuration(stage) == Min(9800, 3000 + stage * 650)

\* an interval without its floor
getShuffleIntervalNoFloor(stage) == 620 - stage * 45

getShuffleInterval(stage) == Max(130, 620 - stage * 45)

(***************************************************************************)
(* State of the App component (useState / useRef of lines 203-228), the    *)
(* browser's pending timers, localStorage, and bookkeeping.                *)
(***************************************************************************)
VARIABLES
    stage, dogs, targetDogId, phase, result, selectedDogId, shuffleProgress,
    nickname, nicknameInput, nicknameCheckStatus, checkedNickname,
    showNicknameSetup, pendingStartAfterNickname,
    localLeaderboard, displayLeaderboard, isSharedRanking, lastScore,
    feedingTimeoutRef, shuffleTimeoutRef, shuffleIntervalRef, progressIntervalRef,
    timers,         \* timeouts and intervals the browser still holds
    storage,        \* localStorage: [leaderboard, nickname]
    mounted,        \* FALSE once the component is torn down
    rounds,         \* startRound calls explored: the round a timer belongs to
    lastOp,         \* the handler or callback that ran last, and the phase it ran in
    probe,          \* one call of a pure function: its arguments and its result
    revision        \* which revision of the component runs: "App" (src/src/App.jsx)
                    \* or "earlier" (src/unnamed/part_000)

roundVars == <<stage, dogs, targetDogId, phase, result, selectedDogId, shuffleProgress>>

nicknameVars == <<nickname, nicknameInput, nicknameCheckStatus, checkedNickname,
                  showNicknameSetup, pendingStartAfterNickname>>

boardVars == <<localLeaderboard, displayLeaderboard, isSharedRanking, lastScore>>

refVars == <<feedingTimeoutRef, shuffleTimeoutRef, shuffleIntervalRef, progressIntervalRef>>

vars == <<roundVars, nicknameVars, boardVars, refVars, timers, storage, mounted,
          rounds, lastOp, probe, revision>>

\* Date.now(): strictly later at every round than at the round before
Now == BootTime + rounds

(***************************************************************************)
(* What the session can boot from                                          *)
(***************************************************************************)
NoNickname == <<>>

Fox == <<"F", "o", "x">>

foxLower == <<"f", "o", "x">>

Bob == <<"B", "o", "b">>

Abo == <<"A", "b", "o">>

Item(n, s, t) ==
    [isObject |-> TRUE, nickname |-> n, score |-> s, scoreFinite |-> TRUE,
     playedAt |-> t, playedAtFinite |-> TRUE]

\* contents of localStorage[STORAGE_LEADERBOARD_KEY] after JSON.parse
StoredLeaderboards ==
    { JsonArray(<<>>),
      JsonArray(<<Item(foxLower, 1, 5), Item(Bob, 2, 7)>>) }

\* the ranking= parameter of a shared URL after JSON.parse; <<>> when absent
SharedRankings ==
    { JsonArray(<<>>),
      JsonArray(<<Item(Abo, 3, 6)>>) }

StoredNicknames == { NoNickname, Fox }

\* what the player may type into the nickname field
NicknameInputs == { Fox, <<"a">>, <<" ", "a", "b", " ">> }

\* Date.now() - startedAt at a progress sample.  Date.now() reads the wall
\* clock, which the system may set back while the shuffle runs: a reading taken
\* after startedAt can be lower than startedAt.
ElapsedSamples == { -PROGRESS_PERIOD_MS, PROGRESS_PERIOD_MS, 2000, 12000 }

NoProbe == [fn |-> "none"]

Op(name, arg) == [op |-> name, from |-> phase, arg |-> arg]

\* the state after construction, from what localStorage and the URL hold
Boot(rawStored, rawShared, storedNickname) ==
    LET loadedLeaderboard == sanitizeLeaderboard(rawStored, BootTime)
        sharedRanking == sanitizeLeaderboard(rawShared, BootTime)
        loadedNickname == normalizeNickname(storedNickname)
    IN  /\ stage = 1
        /\ dogs = createDogs(getDogCount(1))
        /\ targetDogId = NoDog
        /\ phase = IF Len(sharedRanking) > 0 THEN "ranking" ELSE "ready"
        /\ result = "none"
        /\ selectedDogId = NoDog
        /\ shuffleProgress = 0
        /\ nickname = loadedNickname
        /\ nicknameInput = loadedNickname
        /\ nicknameCheckStatus = "idle"
        /\ checkedNickname = <<>>
        /\ showNicknameSetup = (loadedNickname = <<>>)
        /\ pendingStartAfterNickname = FALSE
        /\ localLeaderboard = loadedLeaderboard
        /\ displayLeaderboard =
              IF Len(sharedRanking) > 0 THEN sharedRanking ELSE loadedLeaderboard
        /\ isSharedRanking = (Len(sharedRanking) > 0)
        /\ lastScore = NoScore
        /\ feedingTimeoutRef = NoTimer
        /\ shuffleTimeoutRef = NoTimer
        /\ shuffleIntervalRef = NoTimer
        /\ progressIntervalRef = NoTimer
        /\ timers = {}
        /\ storage = [leaderboard |-> rawStored, nickname |-> storedNickname]
        /\ mounted = TRUE
        /\ rounds = 0
        /\ lastOp = [op |-> "boot", from |-> "none", arg |-> 0]
        /\ probe = NoProbe
        /\ revision = "App"

Init ==
    \E rawStored \in StoredLeaderboards, rawShared \in SharedRankings,
       storedNickname \in StoredNicknames :
        Boot(rawStored, rawShared, storedNickname)

\* A session in progress near the last stage: the ready state setupStage leaves
\* after MAX_STAGE - 2 rounds were cleared in a row (no game finished yet, so the
\* leaderboards are still the ones loaded from storage; the nickname is set).
CheckpointStage == MAX_STAGE - 1

CheckpointInit ==
    \E rawStored \in StoredLeaderboards :
        LET loadedLeaderboard == sanitizeLeaderboard(rawStored, BootTime)
        IN  /\ stage = CheckpointStage
            /\ dogs = createDogs(getDogCount(CheckpointStage))
            /\ targetDogId = NoDog
            /\ phase = "ready"
            /\ result = "none"
            /\ selectedDogId = NoDog
            /\ shuffleProgress = 0
            /\ nickname = Fox
            /\ nicknameInput = Fox
            /\ nicknameCheckStatus = "idle"
            /\ checkedNickname = <<>>
            /\ showNicknameSetup = FALSE
            /\ pendingStartAfterNickname = FALSE
            /\ localLeaderboard = loadedLeaderboard
            /\ displayLeaderboard = loadedLeaderboard
            /\ isSharedRanking = FALSE
            /\ lastScore = NoScore
            /\ feedingTimeoutRef = NoTimer
            /\ shuffleTimeoutRef = NoTimer
            /\ shuffleIntervalRef = NoTimer
            /\ progressIntervalRef = NoTimer
            /\ timers = {}
            /\ storage = [leaderboard |-> rawStored, nickname |-> Fox]
            /\ mounted = TRUE
            /\ rounds = 0
            /\ lastOp = [op |-> "boot", from |-> "none", arg |-> 0]
            /\ probe = NoProbe
            /\ revision = "App"

(***************************************************************************)
(* Timing controller                                                       *)
(***************************************************************************)
RefIds == {feedingTimeoutRef, shuffleTimeoutRef, shuffleIntervalRef, progressIntervalRef}

\* window.setTimeout / setInterval hand out an id no live handle carries
FreshId(used) ==
    CHOOSE n \in 1..(Cardinality(used) + 1) :
        n \notin used /\ \A m \in 1..(n - 1) : m \in used

\* a clearTimers that cancels the two timeouts and forgets the two intervals
TimersAfterClearKeepsIntervals ==
    {t \in timers : t.id \notin {feedingTimeoutRef, shuffleTimeoutRef}}

\* a clearTimers that forgets the feed timeout
TimersAfterClearKeepsFeed ==
    {t \in timers : t.id \notin {shuffleTimeoutRef, shuffleIntervalRef,
                                  progressIntervalRef}}

\* clearTimeout / clearInterval of every handle a ref still holds
TimersAfterClear == {t \in timers : t.id \notin RefIds}

\* a clearTimers that cancels the timers and keeps the handles in the refs
clearTimersKeepsHandles ==
    /\ timers' = TimersAfterClear
    /\ UNCHANGED refVars

clearTimers ==
    /\ timers' = TimersAfterClear
    /\ feedingTimeoutRef' = NoTimer
    /\ shuffleTimeoutRef' = NoTimer
    /\ shuffleIntervalRef' = NoTimer
    /\ progressIntervalRef' = NoTimer

\* a reset that forgets setTargetDogId(null)
setupStageKeepsTarget(nextStage) ==
    LET safeStage == clampStage(nextStage)
    IN  /\ clearTimers
        /\ stage' = safeStage
        /\ dogs' = createDogs(getDogCount(safeStage))
        /\ UNCHANGED targetDogId
        /\ phase' = "ready"
        /\ result' = "none"
        /\ selectedDogId' = NoDog
        /\ shuffleProgress' = 0

\* a reset that forgets setSelectedDogId(null) and setResult(null)
setupStageKeepsOutcome(nextStage) ==
    LET safeStage == clampStage(nextStage)
    IN  /\ clearTimers
        /\ stage' = safeStage
        /\ dogs' = createDogs(getDogCount(safeStage))
        /\ targetDogId' = NoDog
        /\ phase' = "ready"
        /\ UNCHANGED <<result, selectedDogId>>
        /\ shuffleProgress' = 0

setupStage(nextStage) ==
    LET safeStage == clampStage(nextStage)
    IN  /\ clearTimers
        /\ stage' = safeStage
        /\ dogs' = createDogs(getDogCount(safeStage))
        /\ targetDogId' = NoDog
        /\ phase' = "ready"
        /\ result' = "none"
        /\ selectedDogId' = NoDog
        /\ shuffleProgress' = 0

\* the feed timeout is scheduled after clearTimers, on top of what survives it
FeedTimer(currentStage) ==
    [id |-> FreshId({t.id : t \in TimersAfterClear}), kind |-> "feed",
     stage |-> currentStage, round |-> rounds + 1]

startRound(forcedStage) ==
    LET currentStage == clampStage(forcedStage)
        currentDogs == createDogs(getDogCount(currentStage))
    IN  /\ rounds < MaxRounds
        /\ rounds' = rounds + 1
        /\ \E chosen \in 1..Len(currentDogs) :
              targetDogId' = currentDogs[chosen].id
        /\ stage' = currentStage
        /\ dogs' = currentDogs
        /\ selectedDogId' = NoDog
        /\ result' = "none"
        /\ shuffleProgress' = 0
        /\ phase' = "feeding"
        /\ timers' = TimersAfterClear \cup {FeedTimer(currentStage)}
        /\ feedingTimeoutRef' = FeedTimer(currentStage).id
        /\ shuffleTimeoutRef' = NoTimer
        /\ shuffleIntervalRef' = NoTimer
        /\ progressIntervalRef' = NoTimer

\* a startShuffle that never schedules the shuffle-duration timeout
startShuffleNoTimeout(activeStage, fired) ==
    LET live == timers \ {fired}
        shuffleId == FreshId({t.id : t \in live} \cup (RefIds \ {NoTimer}))
        progressId == FreshId({t.id : t \in live} \cup (RefIds \ {NoTimer})
                                  \cup {shuffleId})
        Timer(id, kind) ==
            [id |-> id, kind |-> kind, stage |-> activeStage, round |-> fired.round]
    IN  /\ phase' = "shuffling"
        /\ shuffleProgress' = 0
        /\ shuffleIntervalRef' = shuffleId
        /\ progressIntervalRef' = progressId
        /\ shuffleTimeoutRef' = NoTimer
        /\ timers' = live \cup {Timer(shuffleId, "shuffleInterval"),
                                Timer(progressId, "progressInterval")}

\* the body of the feed timeout's callback; fired is the timeout that just ran
startShuffle(activeStage, fired) ==
    LET live == timers \ {fired}
        shuffleId == FreshId({t.id : t \in live} \cup (RefIds \ {NoTimer}))
        progressId == FreshId({t.id : t \in live} \cup (RefIds \ {NoTimer})
                                  \cup {shuffleId})
        timeoutId == FreshId({t.id : t \in live} \cup (RefIds \ {NoTimer})
                                 \cup {shuffleId, progressId})
        Timer(id, kind) ==
            [id |-> id, kind |-> kind, stage |-> activeStage, round |-> fired.round]
    IN  /\ phase' = "shuffling"
        /\ shuffleProgress' = 0
        /\ shuffleIntervalRef' = shuffleId
        /\ progressIntervalRef' = progressId
        /\ shuffleTimeoutRef' = timeoutId
        /\ timers' = live \cup {Timer(shuffleId, "shuffleInterval"),
                                Timer(progressId, "progressInterval"),
                                Timer(timeoutId, "shuffleTimeout")}

\* localStorage.setItem may throw (quota, private mode); the catch swallows it
saveLeaderboardToStorage(leaderboard) ==
    \E written \in BOOLEAN :
        storage' = IF written
                   THEN [storage EXCEPT !.leaderboard = RawOfAll(leaderboard)]
                   ELSE storage

saveNicknameToStorage(name) ==
    \E written \in BOOLEAN :
        storage' = IF written THEN [storage EXCEPT !.nickname = name] ELSE storage

\* a finishGame that merges the score into the displayed leaderboard
finishGameFromDisplayed(score) ==
    LET finalScore == clampScore(score)
        updated == buildUpdatedLeaderboard(displayLeaderboard, nickname, finalScore, Now)
    IN  /\ clearTimers
        /\ localLeaderboard' = updated
        /\ displayLeaderboard' = updated
        /\ lastScore' = finalScore
        /\ isSharedRanking' = FALSE
        /\ phase' = "ranking"
        /\ saveLeaderboardToStorage(updated)

\* a finishGame that keeps the leaderboards in memory only once they are stored
finishGameNeedsStorage(score) ==
    LET finalScore == clampScore(score)
        updated == buildUpdatedLeaderboard(localLeaderboard, nickname, finalScore, Now)
    IN  /\ clearTimers
        /\ isSharedRanking' = FALSE
        /\ phase' = "ranking"
        /\ \E written \in BOOLEAN :
              IF written
              THEN /\ storage' = [storage EXCEPT !.leaderboard = RawOfAll(updated)]
                   /\ localLeaderboard' = updated
                   /\ displayLeaderboard' = updated
                   /\ lastScore' = finalScore
              ELSE UNCHANGED <<storage, localLeaderboard, displayLeaderboard, lastScore>>

finishGame(score) ==
    LET finalScore == clampScore(score)
        updated == buildUpdatedLeaderboard(localLeaderboard, nickname, finalScore, Now)
    IN  /\ clearTimers
        /\ localLeaderboard' = updated
        /\ displayLeaderboard' = updated
        /\ lastScore' = finalScore
        /\ isSharedRanking' = FALSE
        /\ phase' = "ranking"
        /\ saveLeaderboardToStorage(updated)

(***************************************************************************)
(* Timer callbacks                                                         *)
(***************************************************************************)
FeedTimeoutFires ==
    \E t \in timers :
        /\ mounted
        /\ t.kind = "feed"
        /\ startShuffle(t.stage, t)
        /\ lastOp' = Op("feedTimeout", t.round)
        /\ UNCHANGED <<probe, revision>>
        /\ UNCHANGED <<stage, dogs, targetDogId, result, selectedDogId,
                       nicknameVars, boardVars, feedingTimeoutRef, storage,
                       mounted, rounds>>

ShuffleIntervalTick ==
    \E t \in timers :
        /\ mounted
        /\ t.kind = "shuffleInterval"
        /\ IF Len(dogs) < 2
           THEN dogs' = shuffleOnce(dogs, 0, 0)
           ELSE \E first \in 0..(Len(dogs) - 1) :
                    \E second \in (0..(Len(dogs) - 1)) \ {first} :
                        dogs' = shuffleOnce(dogs, first, second)
        /\ lastOp' = Op("shuffleTick", t.round)
        /\ UNCHANGED <<probe, revision>>
        /\ UNCHANGED <<stage, targetDogId, phase, result, selectedDogId,
                       shuffleProgress, nicknameVars, boardVars, refVars, timers,
                       storage, mounted, rounds>>

\* Math.min(100, (elapsed / duration) * 100), kept to its integer part
progressRatio(elapsed, duration) == Min(100, (elapsed * 100) \div duration)

ProgressIntervalTick ==
    \E t \in timers :
        /\ mounted
        /\ t.kind = "progressInterval"
        /\ \E elapsed \in ElapsedSamples :
              shuffleProgress' = progressRatio(elapsed, getShuffleDuration(t.stage))
        /\ lastOp' = Op("progressTick", t.round)
        /\ UNCHANGED <<probe, revision>>
        /\ UNCHANGED <<stage, dogs, targetDogId, phase, result, selectedDogId,
                       nicknameVars, boardVars, refVars, timers, storage,
                       mounted, rounds>>

ShuffleTimeoutFires ==
    \E t \in timers :
        /\ mounted
        /\ t.kind = "shuffleTimeout"
        /\ timers' = {u \in timers \ {t} :
                         u.id \notin {shuffleIntervalRef, progressIntervalRef}}
        /\ shuffleIntervalRef' = NoTimer
        /\ progressIntervalRef' = NoTimer
        /\ shuffleProgress' = 100
        /\ phase' = "guessing"
        /\ lastOp' = Op("shuffleTimeout", t.round)
        /\ UNCHANGED <<probe, revision>>
        /\ UNCHANGED <<stage, dogs, targetDogId, result, selectedDogId,
                       nicknameVars, boardVars, feedingTimeoutRef,
                       shuffleTimeoutRef, storage, mounted, rounds>>

(***************************************************************************)
(* Player-facing handlers.  The game handlers are taken in every phase, so *)
(* that their own guards are what keeps them from acting; the nickname     *)
(* form exists only while the overlay is rendered (showNicknameSetup).     *)
(***************************************************************************)
\* a handler without the last-stage branch
isLastStageNever == FALSE

\* line 365: the stage cleared is the last one
isLastStage == stage = MAX_STAGE

\* a handler that accepts a pick in every phase of a round
pickGuardMissing == phase \in {"feeding", "shuffling", "guessing", "result"}

\* line 358: anything but guessing returns at once
pickGuard == phase = "guessing"

handleDogPick(dogId) ==
    /\ mounted
    /\ revision = "App"
    /\ lastOp' = Op("handleDogPick", 0)
    /\ UNCHANGED <<probe, revision>>
    /\ IF ~pickGuard
       THEN UNCHANGED <<roundVars, nicknameVars, boardVars, refVars, timers,
                        storage, mounted, rounds>>
       ELSE LET isCorrect == (dogId = targetDogId)
            IN  /\ selectedDogId' = dogId
                /\ result' = IF isCorrect THEN "success" ELSE "fail"
                /\ IF isCorrect /\ isLastStage
                   THEN finishGame(MAX_STAGE)
                   ELSE IF ~isCorrect
                        THEN finishGame(stage - 1)
                        ELSE /\ phase' = "result"
                             /\ UNCHANGED <<boardVars, refVars, timers, storage>>
                /\ UNCHANGED <<stage, dogs, targetDogId, shuffleProgress,
                               nicknameVars, mounted, rounds>>

HandleDogPick == \E dogId \in {dogs[i].id : i \in 1..Len(dogs)} : handleDogPick(dogId)

handleStartFromRanking ==
    /\ mounted
    /\ revision = "App"
    /\ lastOp' = Op("handleStartFromRanking", 0)
    /\ UNCHANGED <<probe, revision>>
    /\ IF nickname = <<>>
       THEN /\ pendingStartAfterNickname' = TRUE
            /\ showNicknameSetup' = TRUE
            /\ UNCHANGED <<roundVars, nickname, nicknameInput, nicknameCheckStatus,
                           checkedNickname, boardVars, refVars, timers, storage,
                           mounted, rounds>>
       ELSE /\ lastScore' = NoScore
            /\ isSharedRanking' = FALSE
            /\ startRound(1)
            /\ UNCHANGED <<nicknameVars, localLeaderboard, displayLeaderboard,
                           storage, mounted>>

handlePrimaryAction ==
    /\ mounted
    /\ revision = "App"
    /\ lastOp' = Op("handlePrimaryAction", 0)
    /\ UNCHANGED <<probe, revision>>
    /\ IF phase = "ready"
       THEN IF nickname = <<>>
            THEN /\ pendingStartAfterNickname' = TRUE
                 /\ showNicknameSetup' = TRUE
                 /\ UNCHANGED <<roundVars, nickname, nicknameInput,
                                nicknameCheckStatus, checkedNickname, boardVars,
                                refVars, timers, storage, mounted, rounds>>
            ELSE /\ startRound(stage)
                 /\ UNCHANGED <<nicknameVars, boardVars, storage, mounted>>
       ELSE IF phase = "result" /\ result = "success"
            THEN /\ setupStage(stage + 1)
                 /\ UNCHANGED <<nicknameVars, boardVars, storage, mounted, rounds>>
            ELSE UNCHANGED <<roundVars, nicknameVars, boardVars, refVars, timers,
                             storage, mounted, rounds>>

\* a pool that forgets the displayed (shared) leaderboard
collectNicknamePoolLocalOnly ==
    {toLowerCase(localLeaderboard[i].nickname) : i \in 1..Len(localLeaderboard)}

collectNicknamePool ==
    {toLowerCase(localLeaderboard[i].nickname) : i \in 1..Len(localLeaderboard)}
        \cup {toLowerCase(displayLeaderboard[i].nickname) :
                 i \in 1..Len(displayLeaderboard)}

handleNicknameInputChange(value) ==
    /\ mounted
    /\ revision = "App"
    /\ showNicknameSetup
    /\ lastOp' = Op("handleNicknameInputChange", 0)
    /\ UNCHANGED <<probe, revision>>
    /\ nicknameInput' = value
    /\ nicknameCheckStatus' = "idle"
    /\ checkedNickname' = <<>>
    /\ UNCHANGED <<roundVars, nickname, showNicknameSetup, pendingStartAfterNickname,
                   boardVars, refVars, timers, storage, mounted, rounds>>

HandleNicknameInputChange == \E value \in NicknameInputs : handleNicknameInputChange(value)

handleCheckNickname ==
    LET normalized == normalizeNickname(nicknameInput)
        lower == toLowerCase(normalized)
        currentLower == toLowerCase(nickname)
        taken == lower \in collectNicknamePool /\ lower # currentLower
    IN  /\ mounted
        /\ revision = "App"
        /\ showNicknameSetup
        /\ lastOp' = Op("handleCheckNickname", 0)
        /\ UNCHANGED <<probe, revision>>
        /\ IF ~isValidNickname(normalized)
           THEN /\ nicknameCheckStatus' = "invalid"
                /\ checkedNickname' = <<>>
           ELSE IF taken
                THEN /\ nicknameCheckStatus' = "duplicate"
                     /\ checkedNickname' = <<>>
                ELSE /\ nicknameCheckStatus' = "ok"
                     /\ checkedNickname' = normalized
        /\ UNCHANGED <<roundVars, nickname, nicknameInput, showNicknameSetup,
                       pendingStartAfterNickname, boardVars, refVars, timers,
                       storage, mounted, rounds>>

\* a confirm that skips the check of nicknameCheckStatus and checkedNickname
handleConfirmNicknameUnchecked ==
    LET normalized == normalizeNickname(nicknameInput)
    IN  /\ mounted
        /\ revision = "App"
        /\ showNicknameSetup
        /\ lastOp' = Op("handleConfirmNickname", 0)
        /\ UNCHANGED <<probe, revision>>
        /\ nickname' = normalized
        /\ nicknameInput' = normalized
        /\ saveNicknameToStorage(normalized)
        /\ showNicknameSetup' = FALSE
        /\ UNCHANGED <<nicknameCheckStatus, checkedNickname, mounted,
                       localLeaderboard, displayLeaderboard>>
        /\ IF pendingStartAfterNickname
           THEN /\ pendingStartAfterNickname' = FALSE
                /\ lastScore' = NoScore
                /\ isSharedRanking' = FALSE
                /\ startRound(1)
           ELSE UNCHANGED <<roundVars, pendingStartAfterNickname, lastScore,
                            isSharedRanking, refVars, timers, rounds>>

handleConfirmNickname ==
    LET normalized == normalizeNickname(nicknameInput)
    IN  /\ mounted
        /\ revision = "App"
        /\ showNicknameSetup
        /\ lastOp' = Op("handleConfirmNickname", 0)
        /\ UNCHANGED <<probe, revision>>
        /\ IF nicknameCheckStatus # "ok" \/ checkedNickname # normalized
           THEN /\ nicknameCheckStatus' = "invalid"
                /\ UNCHANGED <<roundVars, nickname, nicknameInput, checkedNickname,
                               showNicknameSetup, pendingStartAfterNickname,
                               boardVars, refVars, timers, storage, mounted, rounds>>
           ELSE /\ nickname' = normalized
                /\ nicknameInput' = normalized
                /\ saveNicknameToStorage(normalized)
                /\ showNicknameSetup' = FALSE
                /\ UNCHANGED <<nicknameCheckStatus, checkedNickname, mounted,
                               localLeaderboard, displayLeaderboard>>
                /\ IF pendingStartAfterNickname
                   THEN /\ pendingStartAfterNickname' = FALSE
                        /\ lastScore' = NoScore
                        /\ isSharedRanking' = FALSE
                        /\ startRound(1)
                   ELSE UNCHANGED <<roundVars, pendingStartAfterNickname, lastScore,
                                    isSharedRanking, refVars, timers, rounds>>

\* the cleanup of the mount effect (lines 270-272)
Unmount ==
    /\ mounted
    /\ mounted' = FALSE
    /\ clearTimers
    /\ lastOp' = Op("unmount", 0)
    /\ UNCHANGED <<probe, revision>>
    /\ UNCHANGED <<roundVars, nicknameVars, boardVars, storage, rounds>>

(***************************************************************************)
(* The earlier revision of the component (src/unnamed/part_000): no        *)
(* nickname and no leaderboard; the session starts at the stage of the     *)
(* URL, the last stage ends in "finished", a wrong pick in "result" with   *)
(* the two end actions.  clearTimers, setupStage, startShuffle, startRound *)
(* and the timer callbacks are the same code.                              *)
(***************************************************************************)
\* Number(params.get('stage')): 0 when the parameter is absent, NaN when it is
\* not a number
QueryStages ==
    { [finite |-> TRUE, value |-> 0], [finite |-> FALSE, value |-> 0],
      [finite |-> TRUE, value |-> MAX_STAGE], [finite |-> TRUE, value |-> 250] }

getInitialStageFromQuery(stageParam) ==
    IF ~stageParam.finite THEN 1 ELSE clampStage(stageParam.value)

InitEarlier ==
    \E stageParam \in QueryStages :
        LET sharedStartStage == getInitialStageFromQuery(stageParam)
        IN  /\ stage = sharedStartStage
            /\ dogs = createDogs(getDogCount(sharedStartStage))
            /\ targetDogId = NoDog
            /\ phase = "ready"
            /\ result = "none"
            /\ selectedDogId = NoDog
            /\ shuffleProgress = 0
            /\ nickname = <<>>
            /\ nicknameInput = <<>>
            /\ nicknameCheckStatus = "idle"
            /\ checkedNickname = <<>>
            /\ showNicknameSetup = FALSE
            /\ pendingStartAfterNickname = FALSE
            /\ localLeaderboard = <<>>
            /\ displayLeaderboard = <<>>
            /\ isSharedRanking = FALSE
            /\ lastScore = NoScore
            /\ feedingTimeoutRef = NoTimer
            /\ shuffleTimeoutRef = NoTimer
            /\ shuffleIntervalRef = NoTimer
            /\ progressIntervalRef = NoTimer
            /\ timers = {}
            /\ storage = [leaderboard |-> JsonArray(<<>>), nickname |-> <<>>]
            /\ mounted = TRUE
            /\ rounds = 0
            /\ lastOp = [op |-> "boot", from |-> "none", arg |-> 0]
            /\ probe = NoProbe
            /\ revision = "earlier"

handleDogPickEarlier(dogId) ==
    /\ mounted
    /\ revision = "earlier"
    /\ lastOp' = Op("handleDogPick", 0)
    /\ UNCHANGED <<probe, revision>>
    /\ IF ~pickGuard
       THEN UNCHANGED <<roundVars, nicknameVars, boardVars, refVars, timers,
                        storage, mounted, rounds>>
       ELSE LET isCorrect == (dogId = targetDogId)
            IN  /\ selectedDogId' = dogId
                /\ result' = IF isCorrect THEN "success" ELSE "fail"
                /\ phase' = IF isCorrect /\ isLastStage THEN "finished" ELSE "result"
                /\ UNCHANGED <<stage, dogs, targetDogId, shuffleProgress,
                               nicknameVars, boardVars, refVars, timers, storage,
                               mounted, rounds>>

HandleDogPickEarlier ==
    \E dogId \in {dogs[i].id : i \in 1..Len(dogs)} : handleDogPickEarlier(dogId)

\* a primary action that also advances after a wrong pick
handlePrimaryActionEarlierAnyResult ==
    /\ mounted
    /\ revision = "earlier"
    /\ lastOp' = Op("handlePrimaryAction", 0)
    /\ UNCHANGED <<probe, revision>>
    /\ IF phase = "ready"
       THEN /\ startRound(stage)
            /\ UNCHANGED <<nicknameVars, boardVars, storage, mounted>>
       ELSE IF phase = "result"
            THEN /\ setupStage(stage + 1)
                 /\ UNCHANGED <<nicknameVars, boardVars, storage, mounted, rounds>>
            ELSE UNCHANGED <<roundVars, nicknameVars, boardVars, refVars, timers,
                             storage, mounted, rounds>>

handlePrimaryActionEarlier ==
    /\ mounted
    /\ revision = "earlier"
    /\ lastOp' = Op("handlePrimaryAction", 0)
    /\ UNCHANGED <<probe, revision>>
    /\ IF phase = "ready"
       THEN /\ startRound(stage)
            /\ UNCHANGED <<nicknameVars, boardVars, storage, mounted>>
       ELSE IF phase = "result" /\ result = "success"
            THEN /\ setupStage(stage + 1)
                 /\ UNCHANGED <<nicknameVars, boardVars, storage, mounted, rounds>>
            ELSE UNCHANGED <<roundVars, nicknameVars, boardVars, refVars, timers,
                             storage, mounted, rounds>>

\* the end actions are rendered only after the last stage or a wrong pick
showEndOptions == phase = "finished" \/ (phase = "result" /\ result = "fail")

\* onClick={() => startRound(1)}
RestartFromFirstStage ==
    /\ mounted
    /\ revision = "earlier"
    /\ showEndOptions
    /\ lastOp' = Op("restartFromFirstStage", 0)
    /\ UNCHANGED <<probe, revision>>
    /\ startRound(1)
    /\ UNCHANGED <<nicknameVars, boardVars, storage, mounted>>

\* onClick={() => startRound(stage)}
RestartThisStage ==
    /\ mounted
    /\ revision = "earlier"
    /\ showEndOptions
    /\ lastOp' = Op("restartThisStage", 0)
    /\ UNCHANGED <<probe, revision>>
    /\ startRound(stage)
    /\ UNCHANGED <<nicknameVars, boardVars, storage, mounted>>

Next ==
    \/ handlePrimaryAction
    \/ handleStartFromRanking
    \/ HandleDogPick
    \/ HandleNicknameInputChange
    \/ handleCheckNickname
    \/ handleConfirmNickname
    \/ FeedTimeoutFires
    \/ ShuffleIntervalTick
    \/ ProgressIntervalTick
    \/ ShuffleTimeoutFires
    \/ Unmount

Spec == Init /\ [][Next]_vars

NextEarlier ==
    \/ handlePrimaryActionEarlier
    \/ HandleDogPickEarlier
    \/ RestartFromFirstStage
    \/ RestartThisStage
    \/ FeedTimeoutFires
    \/ ShuffleIntervalTick
    \/ ProgressIntervalTick
    \/ ShuffleTimeoutFires
    \/ Unmount

SpecEarlier == InitEarlier /\ [][NextEarlier]_vars

\* both revisions, from boot
SpecBoth == (Init \/ InitEarlier) /\ [][Next \/ NextEarlier]_vars

\* Sessions around the last stage, in both revisions.  Once a nickname is set
\* the nickname overlay is never rendered again, so its handlers are left out.
NextLate ==
    \/ handlePrimaryAction
    \/ handleStartFromRanking
    \/ HandleDogPick
    \/ handlePrimaryActionEarlier
    \/ HandleDogPickEarlier
    \/ RestartFromFirstStage
    \/ RestartThisStage
    \/ FeedTimeoutFires
    \/ ShuffleIntervalTick
    \/ ProgressIntervalTick
    \/ ShuffleTimeoutFires
    \/ Unmount

SpecLate == (CheckpointInit \/ InitEarlier) /\ [][NextLate]_vars

\* Both revisions with the scheduling the event loop gives: a timeout that stays
\* pending is eventually run.  The intervals carry no fairness: nothing depends
\* on a tick being run.  The sessions start at stage 1 with nothing stored, no
\* shared ranking and (in App) a nickname, so the nickname form is never shown.
InitFair ==
    \/ Boot(JsonArray(<<>>), JsonArray(<<>>), Fox)
    \/ InitEarlier /\ stage = 1

SpecFair ==
    /\ InitFair
    /\ [][NextLate]_vars
    /\ WF_vars(FeedTimeoutFires)
    /\ WF_vars(ShuffleTimeoutFires)

(***************************************************************************)
(* Pure functions, called on their own: the component is not mounted, the  *)
(* arguments are drawn in the initial state and one step applies the       *)
(* function.                                                               *)
(***************************************************************************)
\* largest layout handed to shuffleOnce
MaxProbeDogs == 5

Unmounted ==
    /\ stage = 1
    /\ dogs = createDogs(getDogCount(1))
    /\ targetDogId = NoDog
    /\ phase = "ready"
    /\ result = "none"
    /\ selectedDogId = NoDog
    /\ shuffleProgress = 0
    /\ nickname = <<>>
    /\ nicknameInput = <<>>
    /\ nicknameCheckStatus = "idle"
    /\ checkedNickname = <<>>
    /\ showNicknameSetup = TRUE
    /\ pendingStartAfterNickname = FALSE
    /\ localLeaderboard = <<>>
    /\ displayLeaderboard = <<>>
    /\ isSharedRanking = FALSE
    /\ lastScore = NoScore
    /\ feedingTimeoutRef = NoTimer
    /\ shuffleTimeoutRef = NoTimer
    /\ shuffleIntervalRef = NoTimer
    /\ progressIntervalRef = NoTimer
    /\ timers = {}
    /\ storage = [leaderboard |-> JsonArray(<<>>), nickname |-> <<>>]
    /\ mounted = FALSE
    /\ rounds = 0
    /\ lastOp = [op |-> "boot", from |-> "none", arg |-> 0]
    /\ revision = "App"

gameVars == <<roundVars, nicknameVars, boardVars, refVars, timers, storage, mounted,
              rounds, lastOp, revision>>

\* the layouts createDogs and shuffleOnce can produce: ids 1..n in order, the
\* slots a permutation of 0..n-1
Layouts(n) ==
    { [i \in 1..n |-> [id |-> i, slot |-> p[i]]] :
        p \in {q \in [1..n -> 0..(n - 1)] : \A i, j \in 1..n : q[i] = q[j] => i = j} }

IndexPairs(n) ==
    IF n < 2 THEN {<<0, 0>>}
    ELSE {<<first, second>> \in (0..(n - 1)) \X (0..(n - 1)) : first # second}

ShuffleInit ==
    /\ Unmounted
    /\ \E n \in 0..MaxProbeDogs :
          \E layout \in Layouts(n), pair \in IndexPairs(n) :
              probe = [fn |-> "shuffleOnce", dogs |-> layout, first |-> pair[1],
                       second |-> pair[2], applied |-> FALSE, out |-> <<>>]

ApplyShuffleOnce ==
    /\ probe.fn = "shuffleOnce"
    /\ ~probe.applied
    /\ probe' = [probe EXCEPT !.applied = TRUE,
                              !.out = shuffleOnce(probe.dogs, probe.first, probe.second)]
    /\ UNCHANGED gameVars

SpecShuffle == ShuffleInit /\ [][ApplyShuffleOnce]_vars

\* longest leaderboard handed to buildUpdatedLeaderboard
MaxProbeBoard == 2

PaddedFox == <<" ", "F", "O", "X", "\t", " ">>

ProbeItems ==
    { Item(n, sc, t) : n \in {Fox, foxLower, Bob}, sc \in {0, 2, MAX_STAGE},
                       t \in {5, 7} }

RECURSIVE SeqsUpTo(_, _)
SeqsUpTo(S, n) ==
    IF n = 0 THEN {<<>>}
    ELSE LET shorter == SeqsUpTo(S, n - 1)
         IN  shorter \cup {Append(q, x) : q \in shorter, x \in S}

\* the leaderboards the component can hold: whatever sanitizeLeaderboard returns
ProbeBoards ==
    {sanitizeLeaderboard(JsonArray(raw), BootTime) :
        raw \in SeqsUpTo(ProbeItems, MaxProbeBoard)}

MergeInit ==
    /\ Unmounted
    /\ \E current \in ProbeBoards, name \in {Fox, Bob, PaddedFox},
          score \in {0, 1, 2, 3, MAX_STAGE} :
              probe = [fn |-> "buildUpdatedLeaderboard", current |-> current,
                       nickname |-> name, score |-> score, now |-> BootTime,
                       applied |-> FALSE, out |-> <<>>]

ApplyMergeScore ==
    /\ probe.fn = "buildUpdatedLeaderboard"
    /\ ~probe.applied
    /\ probe' = [probe EXCEPT !.applied = TRUE,
                              !.out = buildUpdatedLeaderboard(probe.current,
                                          probe.nickname, probe.score, probe.now)]
    /\ UNCHANGED gameVars

SpecMerge == MergeInit /\ [][ApplyMergeScore]_vars

\* the sessions and the single calls side by side
SpecStore == (Init \/ MergeInit) /\ [][Next \/ ApplyMergeScore]_vars

(***************************************************************************)
(* Storage and URLs this program did not write: localStorage is shared     *)
(* with whatever else runs on the origin (and with older data), and the    *)
(* ranking= parameter of a shared URL is written by whoever shares it.     *)
(***************************************************************************)
Short == <<"a">>

Blank == <<" ", "\t">>

ForeignLeaderboards ==
    { NotAnArray,
      JsonArray(<<Item(Fox, 2, 5), Item(foxLower, 1, 7)>>) }

ForeignSharedRankings ==
    { JsonArray(<<>>),
      JsonArray(<<Item(Bob, 150, 6), Item(Bob, 150, 4)>>) }

ForeignNicknames == { Blank, Short }

InitForeign ==
    \E rawStored \in ForeignLeaderboards, rawShared \in ForeignSharedRankings,
       storedNickname \in ForeignNicknames :
        Boot(rawStored, rawShared, storedNickname)

\* single calls of sanitizeLeaderboard on raw JSON values
MaxOverflow == 2

RawProbeItems ==
    { Item(Fox, 2, 5),
      Item(foxLower, 2, 5),
      Item(Short, 150, 7),
      Item(<<"a", " ", " ", "b">>, -3, 0),
      [Item(Bob, 0, 0) EXCEPT !.playedAtFinite = FALSE],
      [Item(Bob, 1, 0) EXCEPT !.scoreFinite = FALSE],
      [Item(Bob, 1, 0) EXCEPT !.isObject = FALSE],
      Item(Blank, 3, 5) }

\* more valid entries than the leaderboard keeps, scores 0 .. MAX_STAGE + 2 mixed
LargeRaw(n) == [i \in 1..n |-> Item(Bob, (i * 37) % (MAX_STAGE + 3), i % 7)]

ProbeJson ==
    {NotAnArray}
        \cup {JsonArray(raw) : raw \in SeqsUpTo(RawProbeItems, MaxProbeBoard)}
        \cup {JsonArray(LargeRaw(LEADERBOARD_CAP + k)) : k \in 1..MaxOverflow}

SanitizeInit ==
    /\ Unmounted
    /\ \E data \in ProbeJson :
          probe = [fn |-> "sanitizeLeaderboard", data |-> data, now |-> BootTime,
                   applied |-> FALSE, out |-> <<>>, again |-> <<>>]

\* sanitizeLeaderboard(data), and sanitizeLeaderboard of what it returned, later
ApplySanitize ==
    /\ probe.fn = "sanitizeLeaderboard"
    /\ ~probe.applied
    /\ LET out == sanitizeLeaderboard(probe.data, probe.now)
       IN  probe' = [probe EXCEPT !.applied = TRUE,
                                  !.out = out,
                                  !.again = sanitizeLeaderboard(RawOfAll(out),
                                                                probe.now + 1)]
    /\ UNCHANGED gameVars

SpecSanitize == SanitizeInit /\ [][ApplySanitize]_vars

\* sessions booted from foreign storage, and the single calls, side by side
SpecForeign == (InitForeign \/ SanitizeInit) /\ [][Next \/ ApplySanitize]_vars

(***************************************************************************)
(* The nickname form.  It is rendered only while no nickname is set, and   *)
(* the leaderboards only change in finishGame, which needs a nickname: the *)
(* form's handlers always see the leaderboards of the boot.  The timer     *)
(* callbacks are left out here; the field is given a wider choice of text. *)
(***************************************************************************)
Twelve == [i \in 1..12 |-> "x"]

Thirteen == [i \in 1..13 |-> "x"]

WideNicknameInputs ==
    { <<"a", "b">>, Short, <<"a", " ">>, Blank, <<"a", " ", " ", "b">>,
      <<"F", "O", "X">>, <<" ", "A", "B", "\t">>, Twelve, Thirteen,
      <<" ">> \o Twelve \o <<" ">> }

NicknameSharedRankings ==
    { JsonArray(<<>>),
      JsonArray(<<Item(<<"A", "b">>, 3, 6)>>) }

InitNickname ==
    \E rawStored \in StoredLeaderboards, rawShared \in NicknameSharedRankings :
        Boot(rawStored, rawShared, NoNickname)

HandleNicknameInputChangeWide ==
    \E value \in WideNicknameInputs : handleNicknameInputChange(value)

NextNickname ==
    \/ handlePrimaryAction
    \/ handleStartFromRanking
    \/ HandleNicknameInputChangeWide
    \/ handleCheckNickname
    \/ handleConfirmNickname
    \/ Unmount

SpecNickname == InitNickname /\ [][NextNickname]_vars

(***************************************************************************)
(* The difficulty curve: getShuffleDuration and getShuffleInterval at two  *)
(* stages s <= t.                                                          *)
(***************************************************************************)
(***************************************************************************)
(* Sessions opened from a shared-ranking URL (?view=ranking&ranking=...).  *)
(* The shared ranking names the player's own stored nickname with a score  *)
(* the player never reached, and a second player.                          *)
(***************************************************************************)
SharedUrlRanking == JsonArray(<<Item(Abo, 4, 8), Item(Fox, 3, 6)>>)

InitShared ==
    \E rawStored \in StoredLeaderboards, storedNickname \in StoredNicknames :
        Boot(rawStored, SharedUrlRanking, storedNickname)

SpecShared == InitShared /\ [][Next]_vars

TimingInit ==
    /\ Unmounted
    /\ \E s \in 1..MAX_STAGE, t \in 1..MAX_STAGE :
          /\ s <= t
          /\ probe = [fn |-> "timing", s |-> s, t |-> t, applied |-> FALSE,
                      durationS |-> 0, durationT |-> 0,
                      intervalS |-> 0, intervalT |-> 0]

ApplyTiming ==
    /\ probe.fn = "timing"
    /\ ~probe.applied
    /\ probe' = [probe EXCEPT !.applied = TRUE,
                              !.durationS = getShuffleDuration(probe.s),
                              !.durationT = getShuffleDuration(probe.t),
                              !.intervalS = getShuffleInterval(probe.s),
                              !.intervalT = getShuffleInterval(probe.t)]
    /\ UNCHANGED gameVars

SpecTiming == TimingInit /\ [][ApplyTiming]_vars

(***************************************************************************)
(* Claims                                                                  *)
(***************************************************************************)
Ids(layout) == {layout[i].id : i \in 1..Len(layout)}

Slots(layout) == {layout[i].slot : i \in 1..Len(layout)}

Moved(before, after) == {i \in 1..Len(before) : after[i].slot # before[i].slot}

\* C4: shuffleOnce on a valid layout of at least 2 dogs keeps every dog's
\* identifier and the set of slot values, exchanges the slots of exactly two dogs
\* and leaves every other dog's slot alone, so its result differs from its
\* input; on fewer than 2 dogs it returns the layout unchanged.
ShuffleOnceSwapsExactlyTwo ==
    (probe.fn = "shuffleOnce" /\ probe.applied) =>
        LET before == probe.dogs
            after == probe.out
        IN  IF Len(before) < 2 THEN after = before
            ELSE /\ Len(after) = Len(before)
                 /\ \A i \in 1..Len(before) : after[i].id = before[i].id
                 /\ Ids(after) = Ids(before)
                 /\ Slots(after) = Slots(before)
                 /\ Cardinality(Moved(before, after)) = 2
                 /\ \A i, j \in Moved(before, after) :
                       i # j => /\ after[i].slot = before[j].slot
                                /\ after[j].slot = before[i].slot
                 /\ after # before

ShuffleOnceWitness ==
    /\ probe.fn = "shuffleOnce"
    /\ probe.applied
    /\ Len(probe.dogs) = MaxProbeDogs
    /\ probe.out # probe.dogs
    /\ Moved(probe.dogs, probe.out) = {probe.first + 1, probe.second + 1}

TimerKinds == {"feed", "shuffleTimeout", "shuffleInterval", "progressInterval"}

TimerOps == {"feedTimeout", "shuffleTick", "progressTick", "shuffleTimeout"}

PlayerOps == {"handlePrimaryAction", "handleStartFromRanking", "handleDogPick",
              "handleNicknameInputChange", "handleCheckNickname",
              "handleConfirmNickname", "restartFromFirstStage",
              "restartThisStage"}

\* the ref through which clearTimers reaches a timer of this kind
RefOf(kind) ==
    CASE kind = "feed" -> feedingTimeoutRef
      [] kind = "shuffleTimeout" -> shuffleTimeoutRef
      [] kind = "shuffleInterval" -> shuffleIntervalRef
      [] kind = "progressInterval" -> progressIntervalRef

\* C1: at most one timing chain is outstanding: at most one pending timer of each
\* kind, every pending timer was scheduled by the most recent startRound and is
\* still reachable through its ref, timers are pending only while feeding (the
\* feed timeout alone) or shuffling (never the feed timeout), so startRound, the
\* reset to ready and finishGame leave nothing of an earlier chain behind.
OneTimingChain ==
    /\ \A kind \in TimerKinds : Cardinality({t \in timers : t.kind = kind}) <= 1
    /\ \A t \in timers : t.round = rounds /\ t.kind \in TimerKinds /\ RefOf(t.kind) = t.id
    /\ timers # {} => phase \in {"feeding", "shuffling"}
    /\ phase = "feeding" => \A t \in timers : t.kind = "feed"
    /\ phase = "shuffling" => \A t \in timers : t.kind # "feed"
    /\ phase \in {"ready", "guessing", "result", "ranking", "finished"} =>
           timers = {}

OneTimingChainWitness ==
    /\ lastOp.op = "handleStartFromRanking"
    /\ lastOp.from = "shuffling"
    /\ phase = "feeding"
    /\ rounds >= 2
    /\ Cardinality(timers) = 1

\* C2: no callback of a superseded round runs: every timer callback that runs
\* was scheduled by the round in progress, and from ready nothing but a player
\* action changes phase, layout, target or progress.
NoStaleCallback ==
    [][/\ lastOp'.op \in TimerOps => lastOp'.arg = rounds
       /\ (phase = "ready" /\ lastOp'.op \notin PlayerOps) =>
              UNCHANGED <<phase, dogs, targetDogId, shuffleProgress>>]_vars

SupersededRoundWitness ==
    /\ lastOp.op = "handleStartFromRanking"
    /\ lastOp.from = "feeding"
    /\ rounds >= 2
    /\ \A t \in timers : t.round = rounds

\* C3: the layout is a bijection between the dog identifiers 1..N and the slots
\* 0..N-1, with N = 5 from stage 5 on and N = 3 before.
LayoutIsBijection ==
    LET N == Len(dogs)
    IN  /\ N = IF stage >= 5 THEN 5 ELSE 3
        /\ Ids(dogs) = 1..N
        /\ \A i \in 1..N : dogs[i].id = i
        /\ Slots(dogs) = 0..(N - 1)
        /\ \A i, j \in 1..N : dogs[i].slot = dogs[j].slot => i = j

LayoutIsBijectionWitness ==
    /\ lastOp.op = "shuffleTick"
    /\ Len(dogs) = 5
    /\ rounds >= 2
    /\ dogs # createDogs(5)

\* C5: a pick outside guessing changes nothing, and an accepted pick leaves
\* guessing, so a round resolves at most one pick.
PickOutsideGuessingIsNoOp ==
    [][/\ (lastOp'.op = "handleDogPick" /\ phase # "guessing") =>
              UNCHANGED <<roundVars, nicknameVars, boardVars, refVars, timers,
                          storage, rounds>>
       /\ (lastOp'.op = "handleDogPick" /\ phase = "guessing") =>
              phase' \in {"result", "ranking", "finished"}]_vars

PickOutsideGuessingWitness ==
    /\ lastOp.op = "handleDogPick"
    /\ lastOp.from = "shuffling"
    /\ phase = "shuffling"
    /\ timers # {}
    /\ selectedDogId = NoDog

\* C6 as stated: the advance action itself yields stage + 1 with a target drawn
\* from the new layout.
AdvanceDrawsTarget ==
    [][(lastOp'.op = "handlePrimaryAction" /\ phase = "result" /\ result = "success") =>
           /\ stage' = stage + 1
           /\ targetDogId' \in Ids(dogs')
           /\ selectedDogId' = NoDog
           /\ result' = "none"]_vars

\* C6 as amended: below the last stage a pick of the target sets the selection,
\* success and result; the advance action then yields ready at stage + 1 with a
\* fresh layout, no target, no selection and no outcome; the target of stage + 1
\* is drawn from the new layout by the start action taken from that ready state.
CorrectPickThenAdvance ==
    [][/\ \A d \in Ids(dogs) :
             (handleDogPick(d) /\ phase = "guessing" /\ d = targetDogId
                 /\ stage < MAX_STAGE) =>
                 /\ selectedDogId' = d
                 /\ result' = "success"
                 /\ phase' = "result"
                 /\ stage' = stage
       /\ (lastOp'.op = "handlePrimaryAction" /\ phase = "result"
              /\ result = "success") =>
              /\ stage' = stage + 1
              /\ phase' = "ready"
              /\ targetDogId' = NoDog
              /\ selectedDogId' = NoDog
              /\ result' = "none"
              /\ \A i \in 1..Len(dogs') : dogs'[i].slot = i - 1
              /\ timers' = {}
       /\ (lastOp'.op = "handlePrimaryAction" /\ phase = "ready"
              /\ phase' = "feeding") =>
              /\ stage' = stage
              /\ targetDogId' \in Ids(dogs')
              /\ selectedDogId' = NoDog
              /\ result' = "none"]_vars

CorrectPickThenAdvanceWitness ==
    /\ lastOp.op = "handlePrimaryAction"
    /\ lastOp.from = "result"
    /\ phase = "ready"
    /\ stage = 2
    /\ targetDogId = NoDog
    /\ selectedDogId = NoDog

\* C7: a pick of the target at MAX_STAGE ends in the terminal success state,
\* never in result: ranking with MAX_STAGE as the score merged and shown in
\* App.jsx, finished in the earlier revision; in that state no timer is pending
\* and phase and stage stay as they are until the player starts a new game, and
\* the stage never exceeds MAX_STAGE.
LastStageWinIsTerminal ==
    /\ [](stage \in 1..MAX_STAGE)
    /\ [][/\ \A d \in Ids(dogs) :
                (handleDogPick(d) /\ phase = "guessing" /\ d = targetDogId
                    /\ stage = MAX_STAGE) =>
                    /\ phase' = "ranking"
                    /\ result' = "success"
                    /\ stage' = MAX_STAGE
                    /\ lastScore' = MAX_STAGE
                    /\ localLeaderboard' =
                          buildUpdatedLeaderboard(localLeaderboard, nickname,
                                                  MAX_STAGE, Now)
                    /\ displayLeaderboard' = localLeaderboard'
                    /\ timers' = {}
          /\ \A d \in Ids(dogs) :
                (handleDogPickEarlier(d) /\ phase = "guessing" /\ d = targetDogId
                    /\ stage = MAX_STAGE) =>
                    /\ phase' = "finished"
                    /\ result' = "success"
                    /\ stage' = MAX_STAGE
                    /\ timers' = {}
          /\ (phase = "ranking" /\ result = "success") =>
                /\ stage = MAX_STAGE
                /\ timers = {}
                /\ \/ phase' = "ranking" /\ stage' = stage /\ rounds' = rounds
                   \/ /\ lastOp'.op = "handleStartFromRanking"
                      /\ stage' = 1
                      /\ phase' = "feeding"
          /\ phase = "finished" =>
                /\ stage = MAX_STAGE
                /\ result = "success"
                /\ timers = {}
                /\ \/ phase' = "finished" /\ stage' = stage /\ rounds' = rounds
                   \/ /\ lastOp'.op \in {"restartFromFirstStage", "restartThisStage"}
                      /\ stage' \in {1, MAX_STAGE}
                      /\ phase' = "feeding"]_vars

LastStageWinWitness ==
    /\ lastOp.op = "handleDogPick"
    /\ phase = "ranking"
    /\ result = "success"
    /\ stage = MAX_STAGE
    /\ lastScore = MAX_STAGE
    /\ timers = {}

\* C8: a pick of a dog that is not the target ends the session at once: ranking,
\* every timer cancelled, stage - 1 the score merged under the nickname; from
\* ranking the only way on is a new game at stage 1.
WrongPickEndsSession ==
    [][/\ \A d \in Ids(dogs) :
             (handleDogPick(d) /\ phase = "guessing" /\ d # targetDogId) =>
                 /\ phase' = "ranking"
                 /\ result' = "fail"
                 /\ selectedDogId' = d
                 /\ stage' = stage
                 /\ timers' = {}
                 /\ RefIds' = {NoTimer}
                 /\ lastScore' = stage - 1
                 /\ localLeaderboard' =
                       buildUpdatedLeaderboard(localLeaderboard, nickname,
                                               stage - 1, Now)
                 /\ displayLeaderboard' = localLeaderboard'
       /\ phase = "ranking" =>
             \/ phase' = "ranking" /\ stage' = stage
             \/ /\ lastOp'.op \in {"handleStartFromRanking", "handleConfirmNickname"}
                /\ stage' = 1
                /\ phase' = "feeding"]_vars

WrongPickWitness ==
    /\ lastOp.op = "handleDogPick"
    /\ phase = "ranking"
    /\ result = "fail"
    /\ stage = 2
    /\ lastScore = 1
    /\ timers = {}

\* the entries of a leaderboard that are name's, case-insensitively
EntriesOf(board, name) ==
    {i \in 1..Len(board) :
        toLowerCase(board[i].nickname) = toLowerCase(normalizeNickname(name))}

MergeApplied == probe.fn = "buildUpdatedLeaderboard" /\ probe.applied

\* C9: merging a score that is not above the stored score of a nickname that has
\* an entry returns the leaderboard as it was (same entries, same order, none
\* added); the result differs only when the score is strictly greater, and then
\* the entry is replaced in place, not joined by a second one.
MergeKeepsBetterScore ==
    (MergeApplied /\ EntriesOf(probe.current, probe.nickname) # {}) =>
        LET mine == EntriesOf(probe.current, probe.nickname)
            beaten == \A i \in mine : probe.score > probe.current[i].score
        IN  /\ ~beaten => probe.out = probe.current
            /\ probe.out # probe.current => beaten
            /\ Len(probe.out) = Len(probe.current)
            /\ Cardinality(EntriesOf(probe.out, probe.nickname)) = Cardinality(mine)
            /\ beaten => \E j \in EntriesOf(probe.out, probe.nickname) :
                             /\ probe.out[j].score = probe.score
                             /\ probe.out[j].playedAt = probe.now

MergeKeepsBetterScoreWitness ==
    /\ MergeApplied
    /\ probe.nickname = PaddedFox
    /\ probe.score = 2
    /\ \E i \in 1..Len(probe.current) :
          probe.current[i].nickname = foxLower /\ probe.current[i].score = 2
    /\ probe.out = probe.current

\* C10: a merge never lowers a recorded score: for every entry the leaderboard
\* holds for the nickname, the merged leaderboard holds one for it that scores at
\* least as much; and in a session every step leaves the player an entry at least
\* as good as each one held before.
MergeNeverLowersScore ==
    /\ [](MergeApplied =>
             \A i \in EntriesOf(probe.current, probe.nickname) :
                 \E j \in EntriesOf(probe.out, probe.nickname) :
                     probe.out[j].score >= probe.current[i].score)
    /\ [][\A i \in EntriesOf(localLeaderboard, nickname) :
             \E j \in EntriesOf(localLeaderboard', nickname) :
                 localLeaderboard'[j].score >= localLeaderboard[i].score]_vars

MergeLowerScoreWitness ==
    /\ lastOp.op = "handleDogPick"
    /\ phase = "ranking"
    /\ rounds >= 2
    /\ \E i \in EntriesOf(localLeaderboard, nickname) :
          localLeaderboard[i].score > lastScore


Boards == {localLeaderboard, displayLeaderboard}

SanitizeApplied == probe.fn = "sanitizeLeaderboard" /\ probe.applied

\* C11: the local leaderboard never holds two entries whose nicknames are equal
\* after lower-casing.
UniqueNicknames ==
    \A i, j \in 1..Len(localLeaderboard) :
        toLowerCase(localLeaderboard[i].nickname)
            = toLowerCase(localLeaderboard[j].nickname) => i = j

\* score descending, ties by earlier playedAt first
Sorted(board) ==
    \A i, j \in 1..Len(board) :
        i < j => \/ board[i].score > board[j].score
                 \/ /\ board[i].score = board[j].score
                    /\ board[i].playedAt <= board[j].playedAt

Entries(board) == {board[i] : i \in 1..Len(board)}

\* C12: every leaderboard sanitizeLeaderboard or buildUpdatedLeaderboard produces
\* (local, displayed, shared, or returned by a single call) is sorted by score
\* descending with ties by earlier playedAt, holds at most 100 entries with
\* scores in 0..MAX_STAGE, and keeps the first 100 of that order when more valid
\* entries are supplied.
SortedCappedClamped ==
    /\ \A board \in Boards :
          /\ Sorted(board)
          /\ Len(board) <= LEADERBOARD_CAP
          /\ \A e \in Entries(board) : e.score \in 0..MAX_STAGE
    /\ SanitizeApplied =>
          LET valid == mapFilter(probe.data.items, probe.now)
              out == probe.out
          IN  /\ Sorted(out)
              /\ \A e \in Entries(out) : e.score \in 0..MAX_STAGE
              /\ Len(out) = IF probe.data.isArray
                            THEN Min(Len(valid), LEADERBOARD_CAP) ELSE 0
              /\ probe.data.isArray =>
                    /\ Entries(out) \subseteq Entries(valid)
                    /\ \A dropped \in Entries(valid) \ Entries(out) :
                          \A kept \in Entries(out) :
                              compareEntries(kept, dropped) <= 0

SortedCappedClampedWitness ==
    /\ SanitizeApplied
    /\ Len(probe.data.items) = LEADERBOARD_CAP + MaxOverflow
    /\ Len(probe.out) = LEADERBOARD_CAP
    /\ probe.out[1].score = MAX_STAGE
    /\ probe.out[LEADERBOARD_CAP].score > 0

\* C13: sanitizeLeaderboard applied to what sanitizeLeaderboard returned gives the
\* same entries in the same order, whatever the raw input was.
SanitizeIsIdempotent == SanitizeApplied => probe.again = probe.out

SanitizeIsIdempotentWitness ==
    /\ SanitizeApplied
    /\ Len(probe.data.items) = 2
    /\ Len(probe.out) = 2
    /\ probe.out[1] # probe.out[2]
    /\ compareEntries(probe.out[1], probe.out[2]) = 0
    /\ probe.again = probe.out

\* C14: every entry of the local and of the displayed leaderboard has a
\* normalized nickname of 2 to 12 characters.
NicknameLengthInRange ==
    \A board \in Boards :
        \A e \in Entries(board) :
            /\ normalizeNickname(e.nickname) = e.nickname
            /\ Len(e.nickname) >= 2
            /\ Len(e.nickname) <= 12


IsSpace(c) == c \in {" ", "\t"}

\* the length a name has once trimmed and with every whitespace run made one
\* space: its characters that are not whitespace, and one space between words
NormalizedLength(name) ==
    LET letters == {i \in 1..Len(name) : ~IsSpace(name[i])}
        wordStarts == {i \in letters : i = 1 \/ IsSpace(name[i - 1])}
    IN  Cardinality(letters) + Max(Cardinality(wordStarts) - 1, 0)

\* C15: a name is accepted exactly when its normalized length is 2 to 12: "ab"
\* is valid, "a" and a 13-character name are not, and handleCheckNickname reports
\* invalid, recording no checked nickname, for exactly the names that are not.
ValidExactlyWhenTwoToTwelve ==
    [][/\ isValidNickname(<<"a", "b">>)
       /\ ~isValidNickname(Short)
       /\ ~isValidNickname(Thirteen)
       /\ isValidNickname(nicknameInput) <=> NormalizedLength(nicknameInput) \in 2..12
       /\ lastOp'.op = "handleCheckNickname" =>
             /\ nicknameCheckStatus' = "invalid"
                   <=> NormalizedLength(nicknameInput) \notin 2..12
             /\ nicknameCheckStatus' = "invalid" => checkedNickname' = <<>>]_vars

InvalidNicknameWitness ==
    /\ lastOp.op = "handleCheckNickname"
    /\ nicknameInput = Thirteen
    /\ nicknameCheckStatus = "invalid"
    /\ checkedNickname = <<>>
    /\ nickname = <<>>

\* C16: for a valid name handleCheckNickname reports duplicate exactly when the
\* name, normalized and lower-cased, is the lower-cased nickname of an entry of
\* the local or of the displayed leaderboard and is not the player's own
\* nickname; otherwise it reports ok and records the normalized name.
DuplicateExactlyWhenKnown ==
    [][(lastOp'.op = "handleCheckNickname" /\ NormalizedLength(nicknameInput) \in 2..12) =>
           LET lower == toLowerCase(normalizeNickname(nicknameInput))
               known == \E board \in Boards : \E e \in Entries(board) :
                            toLowerCase(e.nickname) = lower
               own == lower = toLowerCase(nickname)
           IN  /\ nicknameCheckStatus' \in {"duplicate", "ok"}
               /\ nicknameCheckStatus' = "duplicate" <=> (known /\ ~own)
               /\ nicknameCheckStatus' = "duplicate" => checkedNickname' = <<>>
               /\ nicknameCheckStatus' = "ok" =>
                     checkedNickname' = normalizeNickname(nicknameInput)]_vars

SharedDuplicateWitness ==
    /\ lastOp.op = "handleCheckNickname"
    /\ nicknameCheckStatus = "duplicate"
    /\ isSharedRanking
    /\ \E e \in Entries(displayLeaderboard) :
          toLowerCase(e.nickname) = toLowerCase(normalizeNickname(nicknameInput))
    /\ \A e \in Entries(localLeaderboard) :
          toLowerCase(e.nickname) # toLowerCase(normalizeNickname(nicknameInput))


TimingApplied == probe.fn = "timing" /\ probe.applied

\* C17 as stated: the duration never grows and the interval never shrinks with
\* the stage, within the ceiling and the floor.
DurationNonIncreasing ==
    TimingApplied =>
        /\ probe.durationS >= probe.durationT
        /\ probe.intervalS <= probe.intervalT
        /\ probe.durationT <= 9800
        /\ probe.intervalT >= 130

\* C17 as amended: the duration never shrinks and the interval never grows with
\* the stage; the duration is 3650 at stage 1 and at its ceiling 9800 at stage
\* 100, the interval is 575 at stage 1 and at its floor 130 at stage 100.
DurationNonDecreasing ==
    TimingApplied =>
        /\ probe.durationS <= probe.durationT
        /\ probe.intervalS >= probe.intervalT
        /\ probe.s = 1 => probe.durationS = 3650 /\ probe.intervalS = 575
        /\ probe.t = MAX_STAGE => probe.durationT = 9800 /\ probe.intervalT = 130
        /\ probe.durationT <= 9800
        /\ probe.intervalT >= 130

DurationNonDecreasingWitness ==
    /\ TimingApplied
    /\ probe.s = 1
    /\ probe.t = MAX_STAGE
    /\ probe.durationS < probe.durationT
    /\ probe.intervalS > probe.intervalT

\* C18: later stages shuffle longer and faster within fixed bounds: for s <= t
\* the durations are ordered and at most 9800, the intervals are ordered the
\* other way and at least 130, all are positive, and the interval is shorter
\* than the duration, so a tick fits in the round.
LaterStagesLongerAndFaster ==
    TimingApplied =>
        /\ probe.durationS <= probe.durationT
        /\ probe.durationT <= 9800
        /\ probe.intervalS >= probe.intervalT
        /\ probe.intervalT >= 130
        /\ probe.durationS > 0
        /\ probe.intervalT > 0
        /\ probe.intervalS < probe.durationS
        /\ probe.intervalT < probe.durationT
        /\ probe.durationS \div probe.intervalS >= 1
        /\ probe.durationT \div probe.intervalT >= 1

LaterStagesWitness ==
    /\ TimingApplied
    /\ probe.s = 10
    /\ probe.t = 11
    /\ probe.durationS = 9500
    /\ probe.durationT = 9800
    /\ probe.intervalS = 170
    /\ probe.intervalT = 130

\* C19: a storage write that fails changes nothing in memory: whether or not
\* the leaderboard was stored, finishing a game leaves the merged leaderboard as
\* the local and the displayed one, the score as the last score and the phase
\* ranking; whether or not the nickname was stored, a confirmed nickname is set.
\* Storage holds either what it held or what was to be written.
SaveFailureLeavesMemoryIntact ==
    [][/\ (lastOp'.op = "handleDogPick" /\ phase = "guessing") =>
             LET score == IF result' = "success" THEN stage ELSE clampScore(stage - 1)
                 merged == buildUpdatedLeaderboard(localLeaderboard, nickname,
                                                   score, Now)
             IN  phase' = "ranking" =>
                     /\ localLeaderboard' = merged
                     /\ displayLeaderboard' = merged
                     /\ lastScore' = score
                     /\ UNCHANGED nicknameVars
                     /\ storage'.leaderboard \in {storage.leaderboard, RawOfAll(merged)}
                     /\ storage'.nickname = storage.nickname
       /\ (lastOp'.op = "handleConfirmNickname" /\ nicknameCheckStatus = "ok"
              /\ checkedNickname = normalizeNickname(nicknameInput)) =>
             /\ nickname' = normalizeNickname(nicknameInput)
             /\ showNicknameSetup' = FALSE
             /\ storage'.nickname \in {storage.nickname, nickname'}
             /\ storage'.leaderboard = storage.leaderboard]_vars

FailedSaveWitness ==
    /\ lastOp.op = "handleDogPick"
    /\ phase = "ranking"
    /\ lastScore = 1
    /\ \E e \in Entries(localLeaderboard) : e.nickname = nickname /\ e.score = 1
    /\ storage.leaderboard # RawOfAll(localLeaderboard)
    /\ storage.nickname # nickname

\* C20: clearTimers is idempotent and safe in every state: after the call no
\* timer is pending and no ref holds a handle, so a second call would change
\* nothing; the game state is left alone, and with nothing pending (the refs may
\* still hold the handles of timeouts that fired) the call cancels nothing.
ClearTimersIdempotent ==
    [][/\ lastOp'.op = "unmount" =>
             /\ timers' = {}
             /\ RefIds' = {NoTimer}
             /\ TimersAfterClear' = timers'
             /\ timers = {} => timers' = timers
             /\ UNCHANGED <<roundVars, nicknameVars, boardVars, storage, rounds>>
       /\ RefIds' = {NoTimer} => timers' = {}]_vars

ClearTimersWitness ==
    /\ lastOp.op = "unmount"
    /\ lastOp.from = "shuffling"
    /\ ~mounted
    /\ timers = {}
    /\ RefIds = {NoTimer}

RoundPhases == {"feeding", "shuffling", "guessing", "result"}

\* C21: in feeding, shuffling, guessing and result the target is the id of a
\* dog of the current layout; it changes only in a step that starts a round
\* (which draws it) or resets the stage (which nulls it); a shuffle tick moves
\* slots and keeps every id and the target; in ready the target is null.
TargetIsStable ==
    /\ [](/\ phase \in RoundPhases => targetDogId \in Ids(dogs)
          /\ phase = "ready" => targetDogId = NoDog)
    /\ [][/\ targetDogId' # targetDogId =>
                \/ rounds' = rounds + 1 /\ phase' = "feeding"
                \/ phase' = "ready" /\ targetDogId' = NoDog
          /\ lastOp'.op = "shuffleTick" =>
                /\ targetDogId' = targetDogId
                /\ Len(dogs') = Len(dogs)
                /\ \A i \in 1..Len(dogs) : dogs'[i].id = dogs[i].id]_vars

TargetIsStableWitness ==
    /\ lastOp.op = "shuffleTick"
    /\ phase = "shuffling"
    /\ rounds >= 2
    /\ targetDogId \in Ids(dogs)
    /\ \E i \in 1..Len(dogs) :
          dogs[i].id = targetDogId /\ dogs[i].slot # createDogs(Len(dogs))[i].slot

\* C22: the shuffle timeout cancels the shuffle interval and the progress
\* interval, sets progress to 100 and phase to guessing in one step; in guessing
\* and result no interval is pending and progress is 100, and progress is
\* within [0,100] in every reachable state.
ProgressStaysInRange ==
    /\ lastOp.op = "shuffleTimeout" =>
          /\ phase = "guessing"
          /\ shuffleProgress = 100
          /\ shuffleIntervalRef = NoTimer /\ progressIntervalRef = NoTimer
    /\ phase \in {"guessing", "result"} =>
          /\ shuffleProgress = 100
          /\ \A t \in timers : t.kind \notin {"shuffleInterval", "progressInterval"}
    /\ shuffleProgress \in 0..100

\* the part of C22 that does not depend on the clock: the timeout's step, and
\* the frozen layout and progress in guessing and result
TimeoutFreezesRound ==
    /\ [](/\ lastOp.op = "shuffleTimeout" =>
                /\ phase = "guessing"
                /\ shuffleProgress = 100
                /\ shuffleIntervalRef = NoTimer /\ progressIntervalRef = NoTimer
          /\ phase \in {"guessing", "result"} =>
                /\ shuffleProgress = 100
                /\ \A t \in timers :
                      t.kind \notin {"shuffleInterval", "progressInterval"}
          /\ shuffleProgress <= 100)
    /\ [][(phase \in {"guessing", "result"} /\ phase' \in {"guessing", "result"})
             => (dogs' = dogs /\ shuffleProgress' = shuffleProgress)]_vars

\* C23: a round that started (phase feeding) reaches guessing unless a restart
\* (a later startRound), a reset (phase ready) or the teardown (unmount)
\* intervenes; guessing is entered only from shuffling, by the shuffle timeout,
\* and shuffling only from feeding, by the feed timeout; in guessing no timer is
\* pending, and only a pick or a restart leaves guessing.
EventuallyGuessing ==
    /\ \A r \in 1..MaxRounds :
          (phase = "feeding" /\ rounds = r)
              ~> \/ phase = "guessing" /\ rounds = r
                 \/ rounds > r
                 \/ phase = "ready"
                 \/ ~mounted
    /\ [][/\ (phase' = "guessing" /\ phase # "guessing") =>
                (phase = "shuffling" /\ lastOp'.op = "shuffleTimeout")
          /\ (phase' = "shuffling" /\ phase # "shuffling") =>
                (phase = "feeding" /\ lastOp'.op = "feedTimeout")
          /\ (phase = "guessing" /\ phase' # "guessing") =>
                (lastOp'.op = "handleDogPick" \/ rounds' = rounds + 1)
          /\ phase = "guessing" => timers = {}]_vars

EventuallyGuessingWitness ==
    /\ phase = "guessing"
    /\ lastOp.op = "shuffleTimeout"
    /\ lastOp.from = "shuffling"
    /\ rounds = MaxRounds
    /\ mounted
    /\ timers = {}

CheckIsCurrent ==
    /\ nicknameCheckStatus = "ok"
    /\ checkedNickname = normalizeNickname(nicknameInput)

\* C24: the nickname changes only in a confirm taken while the check status is
\* ok for the normalized current input, and then becomes that checked, valid
\* name; every edit puts the check back to idle; any other confirm keeps the
\* nickname and starts no round.  A round is in feeding, shuffling or guessing
\* only with a non-empty nickname, and the leaderboard changes (a score is
\* merged) only under a non-empty nickname.
NicknameOnlyByCheckThenConfirm ==
    /\ [](/\ phase \in {"feeding", "shuffling", "guessing"} => nickname # <<>>
          /\ nicknameCheckStatus = "ok" =>
                /\ checkedNickname = normalizeNickname(nicknameInput)
                /\ isValidNickname(checkedNickname)
          /\ \A e \in Entries(localLeaderboard) : e.nickname # <<>>)
    /\ [][/\ nickname' # nickname =>
                /\ lastOp'.op = "handleConfirmNickname"
                /\ CheckIsCurrent
                /\ nickname' = checkedNickname
                /\ NormalizedLength(nickname') \in 2..12
          /\ lastOp'.op = "handleNicknameInputChange" =>
                (nicknameCheckStatus' = "idle" /\ checkedNickname' = <<>>)
          /\ (lastOp'.op = "handleConfirmNickname" /\ ~CheckIsCurrent) =>
                /\ nickname' = nickname
                /\ rounds' = rounds
                /\ UNCHANGED <<roundVars, timers, showNicknameSetup>>
          /\ localLeaderboard' # localLeaderboard => nickname # <<>>]_vars

NicknameConfirmedWitness ==
    /\ lastOp.op = "handleConfirmNickname"
    /\ nickname = <<"a", "b">>
    /\ nicknameCheckStatus = "ok"
    /\ ~showNicknameSetup
    /\ phase = "feeding"
    /\ rounds = 1

RestartOps == {"handleStartFromRanking", "handleConfirmNickname",
               "restartFromFirstStage", "restartThisStage"}

AfterCorrectPick ==
    phase = "result" /\ result = "success" /\ selectedDogId = targetDogId

\* C25: the stage stays within 1..MAX_STAGE; it grows only by 1 and only when
\* the primary action is taken in result with outcome success (after a correct
\* pick), where it always grows; taken in ready the primary action starts a
\* round at the same stage, and anywhere else (result with outcome fail in the
\* earlier revision included) it changes nothing; a restart sets the stage to 1
\* or keeps it, and nothing else changes the stage.
StageGrowsOnlyByAdvance ==
    /\ [](stage \in 1..MAX_STAGE)
    /\ [][/\ stage' > stage =>
                /\ stage' = stage + 1
                /\ lastOp'.op = "handlePrimaryAction"
                /\ AfterCorrectPick
          /\ lastOp'.op = "handlePrimaryAction" =>
                IF phase = "result" /\ result = "success"
                THEN stage' = stage + 1 /\ phase' = "ready"
                ELSE IF phase = "ready"
                     THEN stage' = stage
                     ELSE UNCHANGED <<roundVars, nicknameVars, boardVars, refVars,
                                      timers, storage, rounds>>
          /\ lastOp'.op \in RestartOps => stage' \in {1, stage}
          /\ stage' # stage =>
                lastOp'.op \in RestartOps \cup {"handlePrimaryAction"}]_vars

StageAdvancedWitness ==
    /\ lastOp.op = "handlePrimaryAction"
    /\ lastOp.from = "result"
    /\ stage = MAX_STAGE
    /\ phase = "ready"

FailedAdvanceWitness ==
    /\ revision = "earlier"
    /\ lastOp.op = "handlePrimaryAction"
    /\ lastOp.from = "result"
    /\ phase = "result"
    /\ result = "fail"

LoadedEntries ==
    UNION {Entries(sanitizeLeaderboard(raw, BootTime)) : raw \in StoredLeaderboards}

SharedEntries == Entries(sanitizeLeaderboard(SharedUrlRanking, BootTime))

OwnEntry(e) ==
    /\ nickname # <<>>
    /\ toLowerCase(e.nickname) = toLowerCase(nickname)
    /\ e.score \in 0..MAX_STAGE
    /\ e.playedAt > BootTime

RawItems(json) == {json.items[i] : i \in 1..Len(json.items)}

\* C26: in a session booted from a shared-ranking URL the shared entries are
\* displayed (phase ranking, shared flag set) and count for the nickname check,
\* and never reach the local leaderboard or the saved data: every local entry
\* and every saved item was loaded from local storage or is the player's own
\* merged score, and what is saved is the local leaderboard.  Each finished game
\* makes the displayed leaderboard the local one and clears the shared flag,
\* which is never set again, and the two leaderboards only change together.
SharedRankingNeverLeaks ==
    /\ [](/\ \A e \in Entries(localLeaderboard) :
                /\ e \in LoadedEntries \/ OwnEntry(e)
                /\ e \notin SharedEntries
          /\ \A item \in RawItems(storage.leaderboard) :
                LET e == [nickname |-> item.nickname, score |-> item.score,
                          playedAt |-> item.playedAt]
                IN  /\ item = RawOf(e)
                    /\ e \in LoadedEntries \/ OwnEntry(e)
                    /\ e \notin SharedEntries
          /\ isSharedRanking =>
                /\ phase = "ranking"
                /\ Entries(displayLeaderboard) = SharedEntries
                /\ localLeaderboard \in
                      {sanitizeLeaderboard(raw, BootTime) : raw \in StoredLeaderboards}
          /\ (lastOp.op = "handleDogPick" /\ lastOp.from = "guessing"
                /\ phase = "ranking") =>
                (displayLeaderboard = localLeaderboard /\ ~isSharedRanking))
    /\ [][/\ isSharedRanking' => isSharedRanking
          /\ storage'.leaderboard # storage.leaderboard =>
                storage'.leaderboard = RawOfAll(localLeaderboard')
          /\ (localLeaderboard' # localLeaderboard
                \/ displayLeaderboard' # displayLeaderboard) =>
                /\ lastOp'.op = "handleDogPick"
                /\ displayLeaderboard' = localLeaderboard'
                /\ ~isSharedRanking'
          /\ (isSharedRanking /\ lastOp'.op = "handleCheckNickname"
                /\ toLowerCase(normalizeNickname(nicknameInput))
                      \in {toLowerCase(e.nickname) : e \in SharedEntries}) =>
                nicknameCheckStatus' = "duplicate"]_vars

SharedRankingReplacedWitness ==
    /\ lastOp.op = "handleDogPick"
    /\ lastOp.from = "guessing"
    /\ phase = "ranking"
    /\ nickname = Fox
    /\ ~isSharedRanking
    /\ displayLeaderboard = localLeaderboard
    /\ \E e \in Entries(localLeaderboard) : OwnEntry(e) /\ e.score = 1
    /\ storage.leaderboard = RawOfAll(localLeaderboard)

=============================================================================
